---------------------------- MODULE Spec2Model ----------------------------
(***************************************************************************)
(* Hero-Dash backend: the adaptive decision engine (crud.py,               *)
(* ml_algorithms.py) over the relational store of models.py.               *)
(*                                                                         *)
(* Numbers are fixed point:                                                *)
(*   reaction_time              tenths of a second      (15 = 1.5 s)       *)
(*   alpha, beta, learning gain thousandths             (1000 = 1.0)       *)
(*   cognitive load, samples    thousandths             (700 = 0.7)        *)
(*   easiness_factor            hundredths              (250 = 2.5)        *)
(*   interval_days              hundredths of a day     (100 = 1 day)      *)
(*   memory_strength            tenths                  (10 = 1.0)         *)
(*   timestamps, now            hundredths of a day since the epoch        *)
(* A quotient is rounded down to the unit of its result.                   *)
(***************************************************************************)
EXTENDS Integers, Sequences, FiniteSets, TLC

VARIABLES
    users,              \* table users: id -> [current_level, total_score]
    attempts,           \* table attempts, in insertion order
    learning_profiles,  \* table learning_profiles: user_id -> profile row
    skill_memory,       \* table skill_memory, in insertion order
    sessions,           \* table session_metrics, in insertion order (id = place)
    assessments,        \* table clinical_assessments, in insertion order
    procs,              \* the record_attempt requests in flight, by worker
    now,                \* datetime.utcnow()
    nops,               \* number of recorded attempts / memory updates so far
    ret                 \* what the last operation returned and computed

vars == <<users, attempts, learning_profiles, skill_memory, sessions, assessments, procs, now, nops, ret>>

----------------------------------------------------------------------------
(* Bounds of the model *)

MaxAttempts == 2
MaxUpdates == 6
MaxTime == 110
MaxSessions == 2
MaxAssessments == 2

(* Input domains *)

UserIds == {1, 2}
Scenarios == {"ambulance", "police", "firetruck", "train", "ice_cream"}
AttemptScenarios == {"ambulance", "police"}
\* what an attempt reports: success and reaction time (0 when not measured)
Outcomes ==
    { [success |-> TRUE, reaction_time |-> 10],
      [success |-> TRUE, reaction_time |-> 0],
      [success |-> FALSE, reaction_time |-> 0],
      [success |-> FALSE, reaction_time |-> 60] }
DifficultyLevels == {1}
Qualities == 0 .. 5
Delays == {100}
\* the time that may pass between two clock readings of one update
ClockLags == {0, 1}

----------------------------------------------------------------------------
(* Arithmetic helpers *)

Min(a, b) == IF a <= b THEN a ELSE b
Max(a, b) == IF a >= b THEN a ELSE b

\* sum(s[lo .. hi]), by halves
RECURSIVE SumRange(_, _, _)
SumRange(s, lo, hi) ==
    IF lo > hi THEN 0
    ELSE IF lo = hi THEN s[lo]
    ELSE SumRange(s, lo, (lo + hi) \div 2) + SumRange(s, (lo + hi) \div 2 + 1, hi)

SumSeq(s) == SumRange(s, 1, Len(s))

\* n * sum(y^2) - sum(y)^2: n^2 times the population variance np.var(y)
VarNumerator(ys) ==
    Len(ys) * SumSeq([i \in 1 .. Len(ys) |-> ys[i] * ys[i]]) - SumSeq(ys) * SumSeq(ys)

Reverse(s) == [i \in 1 .. Len(s) |-> s[Len(s) + 1 - i]]

\* query.order_by(timestamp.desc()).limit(n): the newest n rows, newest first.
\* Rows are inserted with non-decreasing timestamps; rows of equal timestamp
\* come back in insertion order reversed.
NewestFirst(rows, n) ==
    LET r == Reverse(rows) IN SubSeq(r, 1, Min(n, Len(r)))

----------------------------------------------------------------------------
(* 2. Spaced repetition (SM-2), ml_algorithms.py *)

\* index of the first skill_memory row of (user_id, scenario_type), 0 if none
SkillIndex(sm, user_id, scenario_type) ==
    LET hits == {i \in 1 .. Len(sm) :
                    /\ sm[i].user_id = user_id
                    /\ sm[i].scenario_type = scenario_type}
    IN IF hits = {} THEN 0 ELSE CHOOSE i \in hits : \A j \in hits : i <= j

NewSkill(user_id, scenario_type, t) ==
    [user_id |-> user_id, scenario_type |-> scenario_type,
     repetition_number |-> 0, easiness_factor |-> 250, interval_days |-> 0,
     memory_strength |-> 0, last_practiced |-> t, next_review_date |-> t]

\* EasinessDelta without the quadratic term
EasinessDelta_NoSquare(quality) == 10 - (5 - quality) * 8

\* 0.1 - (5 - q) * (0.08 + (5 - q) * 0.02), in hundredths
EasinessDelta(quality) == 10 - (5 - quality) * (8 + (5 - quality) * 2)

\* NextInterval with the easiness factor taken as its initial 2.5
NextInterval_InitialEasiness(skill, quality) ==
    IF quality >= 3
    THEN IF skill.repetition_number = 0 THEN 100
         ELSE IF skill.repetition_number = 1 THEN 600
         ELSE (skill.interval_days * 250) \div 100
    ELSE 100

\* interval_days * easiness_factor in hundredths of a day, the product
\* formed in two parts
Scaled(interval_days, easiness_factor) ==
    (interval_days \div 100) * easiness_factor
        + ((interval_days % 100) * easiness_factor) \div 100

\* "SM-2 algorithm": the new interval, from the row as it was
NextInterval(skill, quality) ==
    IF quality >= 3
    THEN IF skill.repetition_number = 0 THEN 100
         ELSE IF skill.repetition_number = 1 THEN 600
         ELSE Scaled(skill.interval_days, skill.easiness_factor)
    ELSE 100

\* NextRepetition with a failed recall stepping the count back by one
NextRepetition_StepBack(skill, quality) ==
    IF quality >= 3 THEN skill.repetition_number + 1
    ELSE Max(0, skill.repetition_number - 1)

\* the new repetition count
NextRepetition(skill, quality) ==
    IF quality >= 3 THEN skill.repetition_number + 1 ELSE 0

\* datetime.utcnow() + timedelta(days=interval_days)
ReviewDate(t, interval_days) == t + interval_days

\* the clock readings between time 0 and datetime.max, the last day of the
\* year 9999: 2912136 days
DateMax == 2912136 * 100

\* the addition that makes next_review_date raises OverflowError when the
\* date would pass datetime.max
ReviewDateOverflows(skill, quality, t2) ==
    /\ quality >= 3
    /\ skill.repetition_number >= 2
    /\ \/ skill.interval_days \div 100 > DateMax \div skill.easiness_factor + 1
       \/ ReviewDate(t2, NextInterval(skill, quality)) > DateMax

\* the SM-2 step on one row: last_practiced takes the clock reading t, and
\* next_review_date is computed from the reading after it, t2 >= t
Sm2Step(skill, quality, t, t2) ==
    LET iv == NextInterval(skill, quality)
    IN [skill EXCEPT
          !.interval_days = iv,
          !.repetition_number = NextRepetition(skill, quality),
          !.easiness_factor = Max(130, skill.easiness_factor + EasinessDelta(quality)),
          !.memory_strength = Min(10, skill.memory_strength + quality),
          !.last_practiced = t,
          !.next_review_date = ReviewDate(t2, iv)]

\* update_spaced_repetition raises OverflowError before its commit
SpacedRepetitionRaises(sm, t2, user_id, scenario_type, quality) ==
    LET i == SkillIndex(sm, user_id, scenario_type)
    IN i # 0 /\ ReviewDateOverflows(sm[i], quality, t2)

\* update_spaced_repetition: get or create the row, then the SM-2 step.
\* The row as created is overwritten before the commit; its two clock
\* readings are never stored.  When the step raises, nothing is committed.
update_spaced_repetition(sm, t, t2, user_id, scenario_type, quality) ==
    LET i == SkillIndex(sm, user_id, scenario_type)
        sm1 == IF i = 0 THEN Append(sm, NewSkill(user_id, scenario_type, t)) ELSE sm
        k == IF i = 0 THEN Len(sm1) ELSE i
    IN IF SpacedRepetitionRaises(sm, t2, user_id, scenario_type, quality)
       THEN sm
       ELSE [sm1 EXCEPT ![k] = Sm2Step(sm1[k], quality, t, t2)]

----------------------------------------------------------------------------
(* 1. Thompson sampling, ml_algorithms.py *)

\* the key order of the bandit_params JSON object
ScenarioOrder == <<"ambulance", "police", "firetruck", "train", "ice_cream">>

\* bandit_params as stored by default: Beta(1, 1) for each scenario.  The
\* column holds the JSON text of this mapping; json.loads(json.dumps(m)) = m
\* for a mapping of strings to finite numbers, so the mapping itself is kept.
UniformPriors == [s \in Scenarios |-> [alpha |-> 1000, beta |-> 1000]]

NewProfile ==
    [bandit_params |-> UniformPriors,
     avg_reaction_time |-> 0, reaction_time_variance |-> 0]

\* ArgMaxFirst taking the minimum
ArgMinFirst(samples) ==
    LET best == CHOOSE i \in 1 .. Len(ScenarioOrder) :
                   /\ \A j \in 1 .. Len(ScenarioOrder) :
                         samples[ScenarioOrder[j]] >= samples[ScenarioOrder[i]]
                   /\ \A j \in 1 .. i - 1 :
                         samples[ScenarioOrder[j]] > samples[ScenarioOrder[i]]
    IN ScenarioOrder[best]

\* max(samples, key=samples.get): the first key, in key order, of maximal sample
ArgMaxFirst(samples) ==
    LET best == CHOOSE i \in 1 .. Len(ScenarioOrder) :
                   /\ \A j \in 1 .. Len(ScenarioOrder) :
                         samples[ScenarioOrder[j]] <= samples[ScenarioOrder[i]]
                   /\ \A j \in 1 .. i - 1 :
                         samples[ScenarioOrder[j]] < samples[ScenarioOrder[i]]
    IN ScenarioOrder[best]

\* thompson_sampling_scenario_selection: creates the profile when the user has
\* none; samples[s] is the draw np.random.beta(alpha_s, beta_s), which can be
\* any value of (0, 1) whatever alpha_s, beta_s > 0 are.
thompson_sampling_scenario_selection(lp, user_id, samples) ==
    LET lp1 == IF user_id \in DOMAIN lp THEN lp ELSE lp @@ (user_id :> NewProfile)
        selected == ArgMaxFirst(samples)
    IN [profiles |-> lp1,
        selected |-> selected,
        bandit_state |-> lp1[user_id].bandit_params,
        learning_potential |-> samples[selected]]

\* BanditUpdate adding to both numbers of the pair
BanditUpdate_Both(params, learning_gain) ==
    [alpha |-> params.alpha + learning_gain,
     beta |-> params.beta + (1000 - learning_gain)]

\* BanditUpdate rewarding a gain of 0.4 too
BanditUpdate_AtLeast(params, learning_gain) ==
    IF learning_gain >= 400
    THEN [params EXCEPT !.alpha = params.alpha + learning_gain]
    ELSE [params EXCEPT !.beta = params.beta + (1000 - learning_gain)]

\* the Beta update of one scenario's pair
BanditUpdate(params, learning_gain) ==
    IF learning_gain > 400
    THEN [params EXCEPT !.alpha = params.alpha + learning_gain]
    ELSE [params EXCEPT !.beta = params.beta + (1000 - learning_gain)]

\* update_thompson_sampling: nothing when the user has no profile; KeyError
\* when scenario_type is no key of the bandit mapping.
update_thompson_sampling(lp, user_id, scenario_type, learning_gain) ==
    IF user_id \notin DOMAIN lp
    THEN [status |-> "ok", profiles |-> lp]
    ELSE IF scenario_type \notin DOMAIN lp[user_id].bandit_params
    THEN [status |-> "KeyError", profiles |-> lp]
    ELSE [status |-> "ok",
          profiles |-> [lp EXCEPT ![user_id].bandit_params[scenario_type] =
                           BanditUpdate(@, learning_gain)]]

\* the rows of one user / of one (user, scenario), in insertion order
\* AttemptsOf without its filter on the user
AttemptsOf_AnyUser(att, user_id) == att

AttemptsOf(att, user_id) ==
    LET Mine(a) == a.user_id = user_id IN SelectSeq(att, Mine)

AttemptsOfScenario(att, user_id, scenario_type) ==
    LET Mine(a) == a.user_id = user_id /\ a.scenario_type = scenario_type
    IN SelectSeq(att, Mine)

Successes(rows) == LET Ok(a) == a.success IN Len(SelectSeq(rows, Ok))

\* [a.reaction_time for a in rows if a.reaction_time > 0]
TimedRts(rows) ==
    LET Timed(a) == a.reaction_time > 0
        t == SelectSeq(rows, Timed)
    IN [i \in 1 .. Len(t) |-> t[i].reaction_time]

\* calculate_learning_gain over the attempts table as stored when it is called
calculate_learning_gain(att, user_id, scenario_type, current_success, reaction_time) ==
    LET past_attempts == NewestFirst(AttemptsOfScenario(att, user_id, scenario_type), 10)
        n == Len(past_attempts)
        rts == TimedRts(past_attempts)
        rt_sum == SumSeq(rts)
        success_gain == IF current_success THEN 500 ELSE 0
        \* baseline_success_rate < 0.7
        improvement_gain ==
            IF current_success /\ 10 * Successes(past_attempts) < 7 * n
            THEN 300 ELSE 100
        \* baseline_rt = rt_sum / Len(rts); NaN (no timed attempt) compares false
        speed_gain ==
            IF reaction_time > 0 /\ rt_sum > 0
            THEN Max(0, ((rt_sum - Len(rts) * reaction_time) * 200) \div rt_sum)
            ELSE 0
    IN IF n < 3
       THEN (IF current_success THEN 800 ELSE 400)
       ELSE Min(1000, success_gain + improvement_gain + speed_gain)

----------------------------------------------------------------------------
(* Memory decay and the due-for-review query, ml_algorithms.py *)

\* exp(-x) in thousandths for x in thousandths: linear between the points
\* exp(0), exp(-0.25), exp(-0.5), exp(-1), exp(-2), exp(-3), exp(-5), and 0
\* from x = 8 on
ExpTable ==
    << <<0, 1000>>, <<250, 779>>, <<500, 607>>, <<1000, 368>>,
       <<2000, 135>>, <<3000, 50>>, <<5000, 7>>, <<8000, 0>> >>

ExpNeg(x) ==
    IF x >= ExpTable[Len(ExpTable)][1] THEN 0
    ELSE LET k == CHOOSE i \in 1 .. Len(ExpTable) - 1 :
                     ExpTable[i][1] <= x /\ x < ExpTable[i + 1][1]
             x0 == ExpTable[k][1]
             y0 == ExpTable[k][2]
             x1 == ExpTable[k + 1][1]
             y1 == ExpTable[k + 1][2]
         IN y0 - ((y0 - y1) * (x - x0)) \div (x1 - x0)

\* calculate_memory_decay, in thousandths: 0 when the pair has no row
calculate_memory_decay(sm, t, user_id, scenario_type) ==
    LET i == SkillIndex(sm, user_id, scenario_type)
        skill == sm[i]
        \* decay_rate * time_elapsed, in thousandths; max(interval_days, 0.1)
        x == ((t - skill.last_practiced) * 100000)
                \div (skill.easiness_factor * Max(skill.interval_days, 10))
        current_strength == (skill.memory_strength * ExpNeg(x)) \div 10
    IN IF i = 0 THEN 0 ELSE Max(0, Min(1000, current_strength))

\* list.sort(key=urgency, reverse=True): stable, most urgent first
RECURSIVE SortByUrgency(_)
SortByUrgency(s) ==
    IF s = <<>> THEN <<>>
    ELSE LET front == SortByUrgency(SubSeq(s, 1, Len(s) - 1))
             x == s[Len(s)]
             k == Cardinality({i \in 1 .. Len(front) : front[i].urgency >= x.urgency})
         IN SubSeq(front, 1, k) \o <<x>> \o SubSeq(front, k + 1, Len(front))

\* get_due_for_review: the scenario types of the user's due rows
get_due_for_review(sm, t, user_id) ==
    LET Due(skill) == skill.user_id = user_id /\ skill.next_review_date <= t
        skills == SelectSeq(sm, Due)
        urgent_skills ==
            [i \in 1 .. Len(skills) |->
                [scenario_type |-> skills[i].scenario_type,
                 urgency |-> 1000 - calculate_memory_decay(
                                        sm, t, user_id, skills[i].scenario_type)]]
        sorted == SortByUrgency(urgent_skills)
    IN [i \in 1 .. Len(sorted) |-> sorted[i].scenario_type]

----------------------------------------------------------------------------
(* 3. Cognitive load and flow state, ml_algorithms.py *)

SecondsPerTick == 86400 \div 100
WindowMinutes == 10

\* the least-squares slope np.polyfit(range(n), ys, 1)[0] as a fraction
SlopeNumerator(ys) ==
    Len(ys) * SumSeq([i \in 1 .. Len(ys) |-> (i - 1) * ys[i]])
        - SumSeq([i \in 1 .. Len(ys) |-> i - 1]) * SumSeq(ys)

SlopeDenominator(ys) ==
    Len(ys) * SumSeq([i \in 1 .. Len(ys) |-> (i - 1) * (i - 1)])
        - SumSeq([i \in 1 .. Len(ys) |-> i - 1]) * SumSeq([i \in 1 .. Len(ys) |-> i - 1])

\* the longest run of consecutive failures
\* the longest run of failures: the loop's max_consecutive at its end
MaxConsecutiveErrors(rows) ==
    LET RunEndingAt(j) ==
            Cardinality({i \in 1 .. j : \A k \in i .. j : ~rows[k].success})
    IN Max(0, IF rows = <<>> THEN 0
              ELSE CHOOSE m \in {RunEndingAt(j) : j \in 1 .. Len(rows)} :
                       \A j \in 1 .. Len(rows) : RunEndingAt(j) <= m)

\* calculate_cognitive_load(db, user_id, window_minutes=10), in thousandths
calculate_cognitive_load(att, t, user_id) ==
    LET InWindow(a) ==
            /\ a.user_id = user_id
            /\ a.timestamp * SecondsPerTick > t * SecondsPerTick - WindowMinutes * 60
        recent == SelectSeq(att, InWindow)
        n == Len(recent)
        reaction_times == TimedRts(recent)
        m == Len(reaction_times)
        \* min(1.0, np.var(rts) / 2.0), rts in seconds
        rt_normalized_var ==
            IF m > 1 THEN Min(1000, (5 * VarNumerator(reaction_times)) \div (m * m))
            ELSE 0
        \* min(1.0, max(0, slope * 10)), slope in seconds per attempt
        rt_trend_score ==
            IF m > 2
            THEN Min(1000, Max(0, (1000 * SlopeNumerator(reaction_times))
                                      \div SlopeDenominator(reaction_times)))
            ELSE 0
        error_score == (1000 * (n - Successes(recent))) \div n
        error_clustering ==
            Min(1000, (1000 * MaxConsecutiveErrors(recent)) \div 3)
        cognitive_load ==
            (25 * rt_normalized_var + 25 * rt_trend_score
                + 30 * error_score + 20 * error_clustering) \div 100
    IN IF n < 3 THEN 500
       ELSE IF m = 0 THEN 500
       ELSE Min(1000, Max(0, cognitive_load))

\* detect_flow_state(db, user_id) without a session id
\* detect_flow_state reporting no load at all while data is insufficient
detect_flow_state_ZeroLoad(att, t, user_id) ==
    LET n == Len(NewestFirst(AttemptsOf(att, user_id), 20))
    IN IF n < 5
       THEN [in_flow |-> FALSE, recommendation |-> "continue", cognitive_load |-> 0]
       ELSE [in_flow |-> FALSE, recommendation |-> "maintain",
             cognitive_load |-> calculate_cognitive_load(att, t, user_id)]

\* detect_flow_state returning the neutral load whatever the history
detect_flow_state_NeutralLoad(att, t, user_id) ==
    LET n == Len(NewestFirst(AttemptsOf(att, user_id), 20))
    IN IF n < 5
       THEN [in_flow |-> FALSE, recommendation |-> "continue", cognitive_load |-> 500]
       ELSE [in_flow |-> FALSE, recommendation |-> "maintain", cognitive_load |-> 500]

\* OptimalSuccess with the two ends of the range left out
OptimalSuccess_Open(ok, n) == 60 * n < 100 * ok /\ 100 * ok < 85 * n

\* 0.6 <= success_rate <= 0.85, the rate being ok / n
OptimalSuccess(ok, n) == 60 * n <= 100 * ok /\ 100 * ok <= 85 * n

detect_flow_state(att, t, user_id) ==
    LET rows == NewestFirst(AttemptsOf(att, user_id), 20)
        n == Len(rows)
        ok == Successes(rows)
        reaction_times == TimedRts(rows)
        m == Len(reaction_times)
        optimal_success == OptimalSuccess(ok, n)
        \* rt_cv = sqrt(var) / mean < 0.3; rt_cv = 999 without timed attempts
        high_consistency ==
            /\ m > 0
            /\ 100 * VarNumerator(reaction_times)
                   < 9 * SumSeq(reaction_times) * SumSeq(reaction_times)
        recommendation ==
            IF 10 * ok < 4 * n THEN "decrease_difficulty"
            ELSE IF 10 * ok > 9 * n THEN "increase_difficulty"
            ELSE IF ~high_consistency THEN "check_attention"
            ELSE "maintain"
    IN IF n < 5
       THEN [in_flow |-> FALSE, recommendation |-> "continue",
             cognitive_load |-> 500]
       ELSE [in_flow |-> optimal_success /\ high_consistency,
             recommendation |-> recommendation,
             cognitive_load |-> calculate_cognitive_load(att, t, user_id)]

----------------------------------------------------------------------------
(* Attempt recording, crud.py *)

\* the four tables create_attempt reads and writes
Tables(u, a, lp, sm) ==
    [users |-> u, attempts |-> a, learning_profiles |-> lp, skill_memory |-> sm]

\* models.Attempt(...) with the derived noise level and speed modifier
\* (hundredths) and the timestamp the insert gives it
NewAttempt(attempt, t) ==
    [user_id |-> attempt.user_id,
     scenario_type |-> attempt.scenario_type,
     success |-> attempt.success,
     reaction_time |-> attempt.reaction_time,
     difficulty_level |-> attempt.difficulty_level,
     noise_level |-> Min(80, 20 + (attempt.difficulty_level - 1) * 6),
     speed_modifier |-> 100 + (attempt.difficulty_level - 1) * 10,
     timestamp |-> t]

\* ScoreUpdate raising the level with every success
ScoreUpdate_EverySuccess(user, success) ==
    IF success
    THEN [total_score |-> user.total_score + 100,
          current_level |-> user.current_level + 1]
    ELSE user

\* "Update user statistics"
ScoreUpdate(user, success) ==
    IF success
    THEN LET score == user.total_score + 100
         IN [total_score |-> score,
             current_level |-> IF score % 500 = 0
                               THEN user.current_level + 1
                               ELSE user.current_level]
    ELSE user

\* "Calculate quality score for Spaced Repetition (0-5 scale)"
QualityOf(success, reaction_time) ==
    IF success
    THEN IF reaction_time > 0
         THEN IF reaction_time < 15 THEN 5
              ELSE IF reaction_time < 25 THEN 4
              ELSE IF reaction_time < 40 THEN 3
              ELSE 2
         ELSE 4
    ELSE IF reaction_time > 50 THEN 0 ELSE 1

\* "Update learning profile with running averages": avg_reaction_time in
\* milliseconds, reaction_time_variance in 1/10000 s^2
ProfileRefresh(profile, att, user_id) ==
    LET rts == TimedRts(NewestFirst(AttemptsOf(att, user_id), Len(att)))
        recent_rts == SubSeq(rts, 1, Min(20, Len(rts)))
        n == Len(recent_rts)
    IN IF n > 0
       THEN [profile EXCEPT
               !.avg_reaction_time = (SumSeq(recent_rts) * 100) \div n,
               !.reaction_time_variance = (VarNumerator(recent_rts) * 100) \div (n * n)]
       ELSE profile

\* create_attempt at clock reading t, the memory update's last reading
\* being t2.  status is "ok", or the exception that ends the request; db is
\* what the commits before it have made durable.
create_attempt(db, t, t2, attempt) ==
    LET uid == attempt.user_id
        att1 == Append(db.attempts, NewAttempt(attempt, t))
        \* user is None: user.total_score raises before the first commit
        no_user_error == attempt.success /\ uid \notin DOMAIN db.users
        users1 == IF uid \in DOMAIN db.users
                  THEN [db.users EXCEPT ![uid] = ScoreUpdate(@, attempt.success)]
                  ELSE db.users
        learning_gain == calculate_learning_gain(
            att1, uid, attempt.scenario_type, attempt.success, attempt.reaction_time)
        ts == update_thompson_sampling(
            db.learning_profiles, uid, attempt.scenario_type, learning_gain)
        quality == QualityOf(attempt.success, attempt.reaction_time)
        sm1 == update_spaced_repetition(
            db.skill_memory, t, t2, uid, attempt.scenario_type, quality)
        lp2 == IF uid \in DOMAIN ts.profiles
               THEN [ts.profiles EXCEPT ![uid] = ProfileRefresh(@, att1, uid)]
               ELSE ts.profiles
    IN IF no_user_error
       THEN [status |-> "AttributeError", db |-> db,
             learning_gain |-> -1, quality |-> -1]
       ELSE IF ts.status # "ok"
       THEN [status |-> ts.status,
             db |-> Tables(users1, att1, db.learning_profiles, db.skill_memory),
             learning_gain |-> learning_gain, quality |-> -1]
       ELSE IF SpacedRepetitionRaises(
                   db.skill_memory, t2, uid, attempt.scenario_type, quality)
       THEN [status |-> "OverflowError",
             db |-> Tables(users1, att1, ts.profiles, db.skill_memory),
             learning_gain |-> learning_gain, quality |-> quality]
       ELSE [status |-> "ok",
             db |-> Tables(users1, att1, lp2, sm1),
             learning_gain |-> learning_gain, quality |-> quality]

----------------------------------------------------------------------------
(* Recommendation, crud.py *)

ReasonReview == "Memory retention review (Spaced Repetition)"
ReasonBandit == "Optimal learning opportunity detected (Thompson Sampling)"
ReasonWeakness == "Targeted practice for weakness"
ReasonRotation == "Balanced rotation"

scenario_map ==
    [s \in Scenarios |->
        CASE s = "ambulance" -> [action |-> "Move Right", visual_cue |-> "Flashing Red/White Lights"]
          [] s = "police"    -> [action |-> "Stay Center", visual_cue |-> "Flashing Blue/Red Lights"]
          [] s = "firetruck" -> [action |-> "Move Left", visual_cue |-> "Flashing Red Lights"]
          [] s = "train"     -> [action |-> "Stop", visual_cue |-> "Railway Crossing"]
          [] s = "ice_cream" -> [action |-> "Slow Down", visual_cue |-> "Ice Cream Truck"]]

\* stats[t] for every t of all_types over the rows given
WeaknessStats(recent_attempts) ==
    [t \in Scenarios |->
        LET Mine(a) == a.scenario_type = t
            rows == SelectSeq(recent_attempts, Mine)
        IN [attempts |-> Len(rows), failures |-> Len(rows) - Successes(rows)]]

\* "Find scenario with highest failure rate": the loop over stats.items(),
\* from position i on; highest_fail_rate is failures / over (-1 at the start)
RECURSIVE WeakestLoop(_, _, _, _, _)
WeakestLoop(stats, i, weakest_link, failures, over) ==
    IF i > Len(ScenarioOrder)
    THEN [weakest_link |-> weakest_link, failures |-> failures, over |-> over]
    ELSE LET data == stats[ScenarioOrder[i]]
         IN IF data.attempts > 0 /\ data.failures * over > failures * data.attempts
            THEN WeakestLoop(stats, i + 1, ScenarioOrder[i], data.failures, data.attempts)
            ELSE WeakestLoop(stats, i + 1, weakest_link, failures, over)

\* the run of successes at the head of rows (newest first)
\* Streak counting every success of the rows, not the leading run
Streak_Successes(rows) == Successes(rows)

RECURSIVE Streak(_)
Streak(rows) ==
    IF rows = <<>> \/ ~Head(rows).success THEN 0 ELSE 1 + Streak(Tail(rows))

\* WeaknessTargeting taking a failure rate of 0.3 as a weakness too
WeaknessTargeting_AtLeast(recent_attempts, choice) ==
    LET w == WeakestLoop(WeaknessStats(recent_attempts), 1, "", -1, 1)
    IN IF w.weakest_link # "" /\ 10 * w.failures >= 3 * w.over
       THEN [selected_type |-> w.weakest_link, reason |-> ReasonWeakness,
             pct |-> (100 * w.failures) \div w.over]
       ELSE [selected_type |-> choice, reason |-> ReasonRotation, pct |-> -1]

\* "Priority 3: Target weakest area": choice is what random.choice returns
\* should the fallback ask for it
WeaknessTargeting(recent_attempts, choice) ==
    LET w == WeakestLoop(WeaknessStats(recent_attempts), 1, "", -1, 1)
    IN IF w.weakest_link # "" /\ 10 * w.failures > 3 * w.over
       THEN [selected_type |-> w.weakest_link, reason |-> ReasonWeakness,
             pct |-> (100 * w.failures) \div w.over]
       ELSE [selected_type |-> choice, reason |-> ReasonRotation, pct |-> -1]

\* SelectScenario asking the bandit before the due reviews
SelectScenario_BanditFirst(due_scenarios, cognitive_load, ts_scenario, learning_potential, recent_attempts, choice) ==
    IF learning_potential > 300
    THEN [selected_type |-> ts_scenario, reason |-> ReasonBandit, pct |-> -1]
    ELSE IF due_scenarios # <<>> /\ cognitive_load < 700
    THEN [selected_type |-> due_scenarios[1], reason |-> ReasonReview, pct |-> -1]
    ELSE WeaknessTargeting(recent_attempts, choice)

\* "Select scenario using priority hierarchy"
SelectScenario(due_scenarios, cognitive_load, ts_scenario, learning_potential, recent_attempts, choice) ==
    IF due_scenarios # <<>> /\ cognitive_load < 700
    THEN [selected_type |-> due_scenarios[1], reason |-> ReasonReview, pct |-> -1]
    ELSE IF learning_potential > 300
    THEN [selected_type |-> ts_scenario, reason |-> ReasonBandit, pct |-> -1]
    ELSE WeaknessTargeting(recent_attempts, choice)

\* "Adjust difficulty based on flow state and cognitive load", hundredths
\* scenario_map.get with the entry of another type as its default
ScenarioDetails_PoliceDefault(selected_type) ==
    IF selected_type \in DOMAIN scenario_map
    THEN scenario_map[selected_type]
    ELSE scenario_map["police"]

\* scenario_map.get(selected_type, scenario_map["ambulance"])
ScenarioDetails(selected_type) ==
    IF selected_type \in DOMAIN scenario_map
    THEN scenario_map[selected_type]
    ELSE scenario_map["ambulance"]

FlowSpeed(flow_analysis) ==
    IF flow_analysis.recommendation = "decrease_difficulty"
    THEN [speed_mod |-> 80, note |-> <<" | Difficulty reduced (cognitive load management)">>]
    ELSE IF flow_analysis.recommendation = "increase_difficulty"
    THEN [speed_mod |-> 130, note |-> <<" | Difficulty increased (in flow state)">>]
    ELSE IF flow_analysis.in_flow
    THEN [speed_mod |-> 100, note |-> <<" | Optimal challenge-skill balance">>]
    ELSE [speed_mod |-> 100, note |-> <<>>]

\* get_recommendation at clock reading t.  samples are the Beta draws and
\* choice the value of random.choice(all_types).  The reason is the sequence
\* of the texts concatenated; pct is the percentage the weakness text embeds.
\* get_recommendation after the user check: the recommendation of a user of
\* the store
RecommendationFor(db, t, user_id, samples, choice) ==
    LET user == db.users[user_id]
        due_scenarios == get_due_for_review(db.skill_memory, t, user_id)
        ts == thompson_sampling_scenario_selection(db.learning_profiles, user_id, samples)
        flow_analysis == detect_flow_state(db.attempts, t, user_id)
        recent_attempts == NewestFirst(AttemptsOf(db.attempts, user_id), 20)
        sel == SelectScenario(due_scenarios, flow_analysis.cognitive_load,
                              ts.selected, ts.learning_potential,
                              recent_attempts, choice)
        fs == FlowSpeed(flow_analysis)
        streak == Streak(NewestFirst(AttemptsOf(db.attempts, user_id), 5))
        speed_mod == IF streak >= 3 THEN (fs.speed_mod * 11) \div 10 ELSE fs.speed_mod
        reason == <<sel.reason>> \o fs.note
                     \o (IF streak >= 3 THEN <<" | Streak bonus">> ELSE <<>>)
        details == ScenarioDetails(sel.selected_type)
        base_noise == Min(80, 20 + (user.current_level - 1) * 6)
        \* round(base_noise * (1 - cognitive_load * 0.3), 2)
        noise_level ==
            (base_noise * (10000 - 3 * flow_analysis.cognitive_load) + 5000) \div 10000
    IN      [status |-> "ok", profiles |-> ts.profiles,
             type |-> sel.selected_type,
             action |-> details.action,
             visual_cue |-> details.visual_cue,
             difficulty_level |-> user.current_level,
             noise_level |-> noise_level,
             speed_modifier |-> speed_mod,
             reason |-> reason,
             pct |-> sel.pct,
             cognitive_load |-> (flow_analysis.cognitive_load + 5) \div 10,
             in_flow_state |-> flow_analysis.in_flow,
             \* what the request computed on the way
             due_scenarios |-> due_scenarios,
             samples |-> samples,
             choice |-> choice,
             load |-> flow_analysis.cognitive_load,
             flow_recommendation |-> flow_analysis.recommendation]

\* get_recommendation with the bandit consulted before the user is looked up
get_recommendation_SelectFirst(db, t, user_id, samples, choice) ==
    IF user_id \notin DOMAIN db.users
    THEN [status |-> "NotFound",
          profiles |-> thompson_sampling_scenario_selection(
                           db.learning_profiles, user_id, samples).profiles]
    ELSE RecommendationFor(db, t, user_id, samples, choice)

\* get_recommendation: None ("NotFound") for an unknown user_id, before
\* anything else is read or written
get_recommendation(db, t, user_id, samples, choice) ==
    IF user_id \notin DOMAIN db.users
    THEN [status |-> "NotFound", profiles |-> db.learning_profiles]
    ELSE RecommendationFor(db, t, user_id, samples, choice)

----------------------------------------------------------------------------
(* 5. Sessions and clinical scores, main.py and ml_algorithms.py.           *)
(* Performances and response_consistency are thousandths, scores are        *)
(* hundredths of a point, attention spans are seconds.                      *)

\* the largest r in lo .. hi with r * r <= n, by bisection
RECURSIVE ISqrtIn(_, _, _)
ISqrtIn(n, lo, hi) ==
    IF lo >= hi THEN lo
    ELSE LET mid == (lo + hi + 1) \div 2
         IN IF mid * mid <= n THEN ISqrtIn(n, mid, hi) ELSE ISqrtIn(n, lo, mid - 1)

\* np.sqrt, rounded down
ISqrt(n) == ISqrtIn(n, 0, 46340)

\* round(num / den, 0) for num >= 0, den > 0
RoundDiv(num, den) == (2 * num + den) \div (2 * den)

NewSession(user_id, t) ==
    [user_id |-> user_id, session_start |-> t, ended |-> FALSE, session_end |-> t,
     initial_performance |-> 0, final_performance |-> 0,
     learning_velocity |-> 0, response_consistency |-> 0]

\* POST /analytics/start-session/{user_id}
start_session(u, ss, t, user_id) ==
    IF user_id \notin DOMAIN u
    THEN [status |-> "NotFound", sessions |-> ss, session_id |-> 0]
    ELSE [status |-> "ok", sessions |-> Append(ss, NewSession(user_id, t)),
          session_id |-> Len(ss) + 1]

\* the user's attempts stamped within [session_start, session_end]
AttemptsWithin(att, user_id, session_start, session_end) ==
    LET In(a) == /\ a.user_id = user_id
                 /\ a.timestamp >= session_start
                 /\ a.timestamp <= session_end
    IN SelectSeq(att, In)

\* POST /analytics/end-session/{session_id} at clock reading t
end_session(ss, att, t, session_id) ==
    IF session_id \notin 1 .. Len(ss)
    THEN [status |-> "NotFound", sessions |-> ss, attempts_made |-> 0]
    ELSE
    LET session == ss[session_id]
        rows == AttemptsWithin(att, session.user_id, session.session_start, t)
        n == Len(rows)
        k == Min(5, n)
        initial_perf == (1000 * Successes(SubSeq(rows, 1, k))) \div k
        final_perf == (1000 * Successes(SubSeq(rows, n - k + 1, n))) \div k
        reaction_times == TimedRts(rows)
        m == Len(reaction_times)
        \* 1 / (1 + np.var(reaction_times)), the variance in seconds squared
        consistency == (100000 * m * m) \div (100 * m * m + VarNumerator(reaction_times))
        s1 == [session EXCEPT !.ended = TRUE, !.session_end = t]
        s2 == IF n > 0
              THEN [s1 EXCEPT !.initial_performance = initial_perf,
                              !.final_performance = final_perf,
                              !.learning_velocity = final_perf - initial_perf]
              ELSE s1
        s3 == IF n > 0 /\ m > 0
              THEN [s2 EXCEPT !.response_consistency = consistency]
              ELSE s2
    IN [status |-> "ok", sessions |-> [ss EXCEPT ![session_id] = s3],
        attempts_made |-> n]

\* the first i in from .. n - 5 whose window rows[i .. i + 4] has fewer than
\* 2.5 successes, 0 if none: `for i in range(len(attempts) - window_size)`
RECURSIVE FirstFatigue(_, _)
FirstFatigue(rows, i) ==
    IF i > Len(rows) - 5 THEN 0
    ELSE IF 2 * Successes(SubSeq(rows, i, i + 4)) < 5 THEN i
    ELSE FirstFatigue(rows, i + 1)

\* the ended sessions' times to fatigue, in seconds, in session order
RECURSIVE FatigueTimes(_, _, _, _)
FatigueTimes(ss, att, user_id, i) ==
    IF i > Len(ss) THEN <<>>
    ELSE LET session == ss[i]
             rows == AttemptsWithin(att, user_id, session.session_start, session.session_end)
             w == IF Len(rows) < 10 THEN 0 ELSE FirstFatigue(rows, 1)
             rest == FatigueTimes(ss, att, user_id, i + 1)
         IN IF session.user_id = user_id /\ session.ended /\ w > 0
            THEN <<(rows[w].timestamp - session.session_start) * SecondsPerTick>> \o rest
            ELSE rest

\* the k-th smallest member of a sequence of numbers
KthSmallest(xs, k) ==
    CHOOSE v \in {xs[i] : i \in 1 .. Len(xs)} :
        /\ Cardinality({i \in 1 .. Len(xs) : xs[i] < v}) < k
        /\ Cardinality({i \in 1 .. Len(xs) : xs[i] <= v}) >= k

\* np.median
Median(xs) ==
    LET n == Len(xs)
    IN IF n % 2 = 1 THEN KthSmallest(xs, (n + 1) \div 2)
       ELSE (KthSmallest(xs, n \div 2) + KthSmallest(xs, n \div 2 + 1)) \div 2

calculate_attention_span(ss, att, user_id) ==
    LET attention_spans == FatigueTimes(ss, att, user_id, 1)
    IN IF attention_spans # <<>> THEN Median(attention_spans) ELSE 300

\* calculate_clinical_scores with no minimum of data
calculate_clinical_scores_NoMinimum(att, ss, user_id) ==
    LET all_attempts == NewestFirst(AttemptsOf(att, user_id), 100)
        n == Max(1, Len(all_attempts))
        overall == RoundDiv(10000 * Successes(all_attempts), n)
    IN [none |-> FALSE, considered |-> Len(all_attempts),
        figure_ground_score |-> 5000,
        temporal_processing_score |-> 5000,
        sound_localization_score |-> overall,
        auditory_attention_span |-> calculate_attention_span(ss, att, user_id),
        composite_score |-> RoundDiv(10000 + overall, 3)]

\* calculate_clinical_scores: none below 20 attempts, else the scores over
\* the newest 100 attempts at most
calculate_clinical_scores(att, ss, user_id) ==
    LET all_attempts == NewestFirst(AttemptsOf(att, user_id), 100)
        n == Len(all_attempts)
        Noisy(a) == a.noise_level > 50
        high_noise_attempts == SelectSeq(all_attempts, Noisy)
        fg_score == IF high_noise_attempts # <<>>
                    THEN RoundDiv(10000 * Successes(high_noise_attempts),
                                  Len(high_noise_attempts))
                    ELSE 5000
        reaction_times == TimedRts(all_attempts)
        \* rt_std / rt_mean * 100, in hundredths
        spread == (ISqrt(100 * VarNumerator(reaction_times)) * 1000)
                      \div SumSeq(reaction_times)
        temporal_score == IF Len(reaction_times) > 1
                          THEN Max(0, 10000 - spread)
                          ELSE 5000
        overall_success == RoundDiv(10000 * Successes(all_attempts), n)
    IN IF n < 20
       THEN [none |-> TRUE, considered |-> n]
       ELSE [none |-> FALSE, considered |-> n,
             figure_ground_score |-> fg_score,
             temporal_processing_score |-> temporal_score,
             sound_localization_score |-> overall_success,
             auditory_attention_span |-> calculate_attention_span(ss, att, user_id),
             composite_score |-> RoundDiv(fg_score + temporal_score + overall_success, 3)]

NewAssessment(user_id, t, scores) ==
    [user_id |-> user_id, assessment_date |-> t,
     figure_ground_discrimination_score |-> scores.figure_ground_score,
     temporal_processing_score |-> scores.temporal_processing_score,
     sound_localization_score |-> scores.sound_localization_score,
     auditory_attention_span |-> scores.auditory_attention_span,
     composite_score |-> scores.composite_score]

\* GET /analytics/clinical-scores/{user_id} at clock reading t
get_clinical_scores(u, att, ss, asm, t, user_id) ==
    LET scores == calculate_clinical_scores(att, ss, user_id)
    IN IF user_id \notin DOMAIN u
       THEN [status |-> "NotFound", assessments |-> asm]
       ELSE IF scores.none
       THEN [status |-> "InsufficientData", assessments |-> asm,
             current_attempts |-> Len(AttemptsOf(att, user_id)),
             considered |-> scores.considered]
       ELSE [status |-> "ok",
             assessments |-> Append(asm, NewAssessment(user_id, t, scores)),
             scores |-> scores, considered |-> scores.considered]

----------------------------------------------------------------------------
(* Initial states.  InitFresh is the store after construction and the       *)
(* registration of one user.  Init is the store after one of the histories  *)
(* of Seeds has been played, request by request, through create_attempt and *)
(* get_recommendation; the empty history gives InitFresh.                   *)

NoReturn == [op |-> "none"]

NewUser == [current_level |-> 1, total_score |-> 0]

FreshTables == Tables((1 :> NewUser), <<>>, <<>>, <<>>)

LowDraws == [s \in Scenarios |-> 200]

\* one request of a history: an attempt of user 1 at difficulty 1, or a
\* recommendation request of user 1, at clock reading t
AttemptAt(t, scenario_type, success, reaction_time) ==
    [op |-> "record_attempt", at |-> t,
     attempt |-> [user_id |-> 1, scenario_type |-> scenario_type,
                  success |-> success, reaction_time |-> reaction_time,
                  difficulty_level |-> 1]]

RecommendAt(t) == [op |-> "recommend", at |-> t]

Repeat(x, n) == [i \in 1 .. n |-> x]

\* a review of ambulance falls due while the learner fails police again and
\* again, slower each time
SeedLoad ==
    << RecommendAt(-100),
       AttemptAt(-100, "ambulance", FALSE, 60),
       AttemptAt(-100, "ambulance", FALSE, 10),
       AttemptAt(0, "police", FALSE, 10),
       AttemptAt(0, "police", FALSE, 60),
       AttemptAt(0, "police", FALSE, 60) >>

\* a failure of train, then twenty attempts: ambulance and police, each with
\* seven successes followed by three failures
SeedWindow ==
    << RecommendAt(0), AttemptAt(0, "train", FALSE, 10) >>
        \o Repeat(AttemptAt(0, "ambulance", TRUE, 10), 7)
        \o Repeat(AttemptAt(0, "ambulance", FALSE, 10), 3)
        \o Repeat(AttemptAt(0, "police", TRUE, 10), 7)
        \o Repeat(AttemptAt(0, "police", FALSE, 10), 3)

Seeds == {<<>>, SeedLoad, SeedWindow}

AttemptAtLevel(t, scenario_type, success, reaction_time, difficulty_level) ==
    [AttemptAt(t, scenario_type, success, reaction_time)
        EXCEPT !.attempt.difficulty_level = difficulty_level]

\* one attempt short of the 20 that clinical scoring asks for
SeedNineteen ==
    Repeat(AttemptAt(0, "ambulance", TRUE, 10), 12)
        \o Repeat(AttemptAt(0, "police", FALSE, 60), 7)

\* a failure in loud noise, then 99 successes: the next attempt moves the
\* failure out of the newest 100
SeedLong ==
    << AttemptAtLevel(0, "train", FALSE, 60, 7) >>
        \o Repeat(AttemptAt(0, "ambulance", TRUE, 10), 99)

ClinicSeeds == {SeedNineteen, SeedWindow, SeedLong}

\* six failures and a success: two more successes make a run of three
\* while the success rate stays below 0.4
SeedSlump ==
    Repeat(AttemptAt(0, "ambulance", FALSE, 60), 6)
        \o << AttemptAt(0, "ambulance", TRUE, 10) >>

\* eighteen successes: the success rate stays above 0.9
SeedRoll ==
    Repeat(AttemptAt(0, "ambulance", TRUE, 10), 6)
        \o Repeat(AttemptAt(0, "police", TRUE, 10), 6)
        \o Repeat(AttemptAt(0, "firetruck", TRUE, 10), 6)

\* four failures, then four successes
SeedEven ==
    Repeat(AttemptAt(0, "ambulance", FALSE, 10), 4)
        \o Repeat(AttemptAt(0, "ambulance", TRUE, 10), 4)

\* the first two attempts, both successes
SeedStart == Repeat(AttemptAt(0, "ambulance", TRUE, 10), 2)

SpeedSeeds == {SeedSlump, SeedRoll, SeedEven, SeedStart}

\* eleven attempts, then a session that starts at SessionStart and has
\* seen seven successes and a failure so far
SessionStart == 0 - 20

SeedSession ==
    Repeat(AttemptAt(-30, "ambulance", TRUE, 10), 11)
        \o Repeat(AttemptAt(-10, "police", TRUE, 10), 7)
        \o << AttemptAt(-5, "police", FALSE, 60) >>

\* one entry of a history, served on the tables db
ReplayOne(db, e) ==
    IF e.op = "recommend"
    THEN [db EXCEPT !.learning_profiles =
             get_recommendation(db, e.at, 1, LowDraws, "ambulance").profiles]
    ELSE create_attempt(db, e.at, e.at, e.attempt).db

\* the entries lo .. hi of a history, served in order; the tables after the
\* first half are computed before the second half is served
RECURSIVE ReplayRange(_, _, _, _)
ReplayRange(db, history, lo, hi) ==
    IF lo > hi THEN db
    ELSE IF lo = hi THEN ReplayOne(db, history[lo])
    ELSE LET mid == (lo + hi) \div 2
             half == ReplayRange(db, history, lo, mid)
         IN IF DOMAIN half = DOMAIN db
            THEN ReplayRange(half, history, mid + 1, hi)
            ELSE half

Replay(history) == ReplayRange(FreshTables, history, 1, Len(history))

InitFrom(db) ==
    /\ users = db.users
    /\ attempts = db.attempts
    /\ learning_profiles = db.learning_profiles
    /\ skill_memory = db.skill_memory
    /\ sessions = <<>>
    /\ assessments = <<>>
    /\ procs = <<>>
    /\ now = 0
    /\ nops = 0
    /\ ret = NoReturn

InitFresh == InitFrom(FreshTables)

Init == \E history \in Seeds : InitFrom(Replay(history))

\* time passes
Tick ==
    /\ \E d \in Delays :
          /\ now + d <= MaxTime
          /\ now' = now + d
    /\ UNCHANGED <<users, attempts, learning_profiles, skill_memory, nops, ret>>
    /\ UNCHANGED <<sessions, assessments, procs>>

\* POST /attempts/: crud.create_attempt
RecordAttempt(user_id, scenario_type, success, reaction_time, difficulty_level, lag) ==
    /\ nops < MaxAttempts
    /\ now + lag <= MaxTime
    /\ LET attempt == [user_id |-> user_id, scenario_type |-> scenario_type,
                       success |-> success, reaction_time |-> reaction_time,
                       difficulty_level |-> difficulty_level]
           r == create_attempt(
                    Tables(users, attempts, learning_profiles, skill_memory),
                    now, now + lag, attempt)
       IN /\ users' = r.db.users
          /\ attempts' = r.db.attempts
          /\ learning_profiles' = r.db.learning_profiles
          /\ skill_memory' = r.db.skill_memory
          /\ ret' = [op |-> "record_attempt", status |-> r.status, at |-> now,
                     user_id |-> user_id, scenario_type |-> scenario_type,
                     success |-> success, reaction_time |-> reaction_time,
                     learning_gain |-> r.learning_gain, quality |-> r.quality,
                     n_prior |-> Len(AttemptsOfScenario(attempts, user_id, scenario_type)),
                     had_profile |-> user_id \in DOMAIN learning_profiles]
    /\ nops' = nops + 1
    /\ now' = now + lag
    /\ UNCHANGED <<sessions, assessments, procs>>

\* GET /recommend/{user_id}: crud.get_recommendation
Recommend(user_id, samples, choice) ==
    /\ LET r == get_recommendation(
                    Tables(users, attempts, learning_profiles, skill_memory),
                    now, user_id, samples, choice)
       IN /\ learning_profiles' = r.profiles
          /\ ret' = [r EXCEPT !.profiles = "-"] @@ [op |-> "recommend", user_id |-> user_id, at |-> now]
    /\ UNCHANGED <<users, attempts, skill_memory, now, nops>>
    /\ UNCHANGED <<sessions, assessments, procs>>

\* ml_algorithms.update_spaced_repetition called on the store
MemoryUpdate(user_id, scenario_type, quality, lag) ==
    /\ nops < MaxUpdates
    /\ now + lag <= MaxTime
    /\ LET i == SkillIndex(skill_memory, user_id, scenario_type)
           before == IF i = 0 THEN NewSkill(user_id, scenario_type, now)
                     ELSE skill_memory[i]
       IN /\ skill_memory' = update_spaced_repetition(
                                 skill_memory, now, now + lag, user_id,
                                 scenario_type, quality)
          /\ ret' = [op |-> "update_spaced_repetition", at |-> now,
                     user_id |-> user_id,
                     scenario_type |-> scenario_type, quality |-> quality,
                     created |-> (i = 0), before |-> before]
    /\ nops' = nops + 1
    /\ now' = now + lag
    /\ UNCHANGED <<users, attempts, learning_profiles>>
    /\ UNCHANGED <<sessions, assessments, procs>>

\* POST /analytics/start-session/{user_id}
StartSession(user_id) ==
    /\ Len(sessions) < MaxSessions
    /\ LET r == start_session(users, sessions, now, user_id)
       IN /\ sessions' = r.sessions
          /\ ret' = [op |-> "start_session", status |-> r.status, at |-> now,
                     user_id |-> user_id, session_id |-> r.session_id]
    /\ UNCHANGED <<users, attempts, learning_profiles, skill_memory>>
    /\ UNCHANGED <<assessments, procs, now, nops>>

\* POST /analytics/end-session/{session_id}
EndSession(session_id) ==
    /\ LET r == end_session(sessions, attempts, now, session_id)
       IN /\ sessions' = r.sessions
          /\ ret' = [op |-> "end_session", status |-> r.status, at |-> now,
                     session_id |-> session_id, attempts_made |-> r.attempts_made,
                     user_id |-> IF r.status = "ok" THEN sessions[session_id].user_id ELSE 0,
                     was_ended |-> r.status = "ok" /\ sessions[session_id].ended]
    /\ UNCHANGED <<users, attempts, learning_profiles, skill_memory>>
    /\ UNCHANGED <<assessments, procs, now, nops>>

\* GET /analytics/clinical-scores/{user_id}
ClinicalScores(user_id) ==
    /\ Len(assessments) < MaxAssessments
    /\ LET r == get_clinical_scores(users, attempts, sessions, assessments, now, user_id)
       IN /\ assessments' = r.assessments
          /\ ret' = [r EXCEPT !.assessments = "-"]
                       @@ [op |-> "clinical_scores", user_id |-> user_id, at |-> now]
    /\ UNCHANGED <<users, attempts, learning_profiles, skill_memory>>
    /\ UNCHANGED <<sessions, procs, now, nops>>

\* the Beta draws explored: low draws throughout, a high draw, a maximum at
\* the 0.3 threshold, and a tie for the maximum
SampleVectors ==
    { LowDraws,
      [s \in Scenarios |-> IF s = "police" THEN 900 ELSE 200],
      [s \in Scenarios |-> IF s = "firetruck" THEN 300 ELSE 100],
      [s \in Scenarios |-> IF s \in {"train", "ice_cream"} THEN 500 ELSE 100] }

\* what the process-wide generators give one request: the Beta draws, and
\* the value random.choice would return
Draws ==
    {[samples |-> LowDraws, choice |-> c] : c \in {"firetruck", "ice_cream"}}
        \cup {[samples |-> v, choice |-> "firetruck"] : v \in SampleVectors \ {LowDraws}}

Next ==
    \/ \E u \in DOMAIN users, s \in AttemptScenarios, o \in Outcomes,
          d \in DifficultyLevels, lag \in ClockLags :
          RecordAttempt(u, s, o.success, o.reaction_time, d, lag)
    \/ \E u \in UserIds, r \in Draws : Recommend(u, r.samples, r.choice)
    \/ Tick

Spec == Init /\ [][Next]_vars

----------------------------------------------------------------------------
(* Concurrent requests.  Each request is served by a worker thread with a  *)
(* database session of its own (main.py get_db); what a worker has read    *)
(* stays in its session until its next commit.  create_attempt is taken    *)
(* one database interaction at a time.                                     *)

Workers == {1, 2}

Idle == [pc |-> "idle"]

\* a request as it enters create_attempt
Entered(attempt) ==
    [pc |-> "user", attempt |-> attempt, status |-> "running",
     user |-> <<>>, learning_gain |-> 0, profile |-> <<>>,
     skill_index |-> 0, skill |-> <<>>, refreshed |-> <<>>]

\* the UPDATE a commit flushes: the columns whose value the session changed
\* since it loaded the row; the others keep what the table holds
Written(row, loaded, computed) ==
    [c \in DOMAIN row |-> IF computed[c] = loaded[c] THEN row[c] ELSE computed[c]]

Finished(p, status) == [p EXCEPT !.pc = "done", !.status = status]

BeginAttempt(w, user_id, scenario_type, success, reaction_time) ==
    /\ procs[w].pc = "idle"
    /\ procs' = [procs EXCEPT ![w] = Entered(
           [user_id |-> user_id, scenario_type |-> scenario_type,
            success |-> success, reaction_time |-> reaction_time,
            difficulty_level |-> 1])]
    /\ UNCHANGED <<users, attempts, learning_profiles, skill_memory,
                   sessions, assessments, now, nops, ret>>

\* db.query(models.User)...first()
ReadUser(w) ==
    LET p == procs[w]
        uid == p.attempt.user_id
    IN /\ p.pc = "user"
       /\ procs' = [procs EXCEPT ![w] =
              [p EXCEPT !.pc = "attempt",
                        !.user = IF uid \in DOMAIN users THEN <<users[uid]>> ELSE <<>>]]
       /\ UNCHANGED <<users, attempts, learning_profiles, skill_memory,
                      sessions, assessments, now, nops, ret>>

\* the score update and the first commit: the attempt row and the user row
CommitAttempt(w) ==
    LET p == procs[w]
        uid == p.attempt.user_id
    IN /\ p.pc = "attempt"
       /\ IF p.user = <<>> /\ p.attempt.success
          THEN /\ procs' = [procs EXCEPT ![w] = Finished(p, "AttributeError")]
               /\ UNCHANGED <<users, attempts>>
          ELSE /\ attempts' = Append(attempts, NewAttempt(p.attempt, now))
               /\ users' = IF p.user = <<>> THEN users
                           ELSE [users EXCEPT ![uid] = Written(
                                    @, p.user[1], ScoreUpdate(p.user[1], p.attempt.success))]
               /\ procs' = [procs EXCEPT ![w] = [p EXCEPT !.pc = "gain"]]
       /\ UNCHANGED <<learning_profiles, skill_memory, sessions, assessments,
                      now, nops, ret>>

\* calculate_learning_gain: its query of the attempts
ReadGain(w) ==
    LET p == procs[w]
    IN /\ p.pc = "gain"
       /\ procs' = [procs EXCEPT ![w] =
              [p EXCEPT !.pc = "bandit",
                        !.learning_gain = calculate_learning_gain(
                            attempts, p.attempt.user_id, p.attempt.scenario_type,
                            p.attempt.success, p.attempt.reaction_time)]]
       /\ UNCHANGED <<users, attempts, learning_profiles, skill_memory,
                      sessions, assessments, now, nops, ret>>

\* update_thompson_sampling: its query of the profile
ReadBandit(w) ==
    LET p == procs[w]
        uid == p.attempt.user_id
    IN /\ p.pc = "bandit"
       /\ procs' = [procs EXCEPT ![w] =
              IF uid \notin DOMAIN learning_profiles
              THEN [p EXCEPT !.pc = "skill"]
              ELSE IF p.attempt.scenario_type
                         \notin DOMAIN learning_profiles[uid].bandit_params
              THEN Finished(p, "KeyError")
              ELSE [p EXCEPT !.pc = "bandit_commit",
                             !.profile = <<learning_profiles[uid]>>]]
       /\ UNCHANGED <<users, attempts, learning_profiles, skill_memory,
                      sessions, assessments, now, nops, ret>>

\* update_thompson_sampling: json.dumps of the state it loaded, and commit
CommitBandit(w) ==
    LET p == procs[w]
        uid == p.attempt.user_id
        loaded == p.profile[1]
        computed == [loaded EXCEPT !.bandit_params[p.attempt.scenario_type] =
                        BanditUpdate(@, p.learning_gain)]
    IN /\ p.pc = "bandit_commit"
       /\ learning_profiles' =
              [learning_profiles EXCEPT ![uid] = Written(@, loaded, computed)]
       /\ procs' = [procs EXCEPT ![w] = [p EXCEPT !.pc = "skill"]]
       /\ UNCHANGED <<users, attempts, skill_memory, sessions, assessments,
                      now, nops, ret>>

\* update_spaced_repetition: its query of the skill row
ReadSkill(w) ==
    LET p == procs[w]
        i == SkillIndex(skill_memory, p.attempt.user_id, p.attempt.scenario_type)
    IN /\ p.pc = "skill"
       /\ procs' = [procs EXCEPT ![w] =
              [p EXCEPT !.pc = "skill_commit",
                        !.skill_index = i,
                        !.skill = IF i = 0 THEN <<>> ELSE <<skill_memory[i]>>]]
       /\ UNCHANGED <<users, attempts, learning_profiles, skill_memory,
                      sessions, assessments, now, nops, ret>>

\* update_spaced_repetition: the SM-2 step on the row it loaded, or on the
\* row it adds when it found none, and commit
CommitSkill(w, lag) ==
    LET p == procs[w]
        quality == QualityOf(p.attempt.success, p.attempt.reaction_time)
        created == NewSkill(p.attempt.user_id, p.attempt.scenario_type, now)
    IN /\ p.pc = "skill_commit"
       /\ now + lag <= MaxTime
       /\ IF p.skill = <<>>
          THEN /\ skill_memory' =
                     Append(skill_memory, Sm2Step(created, quality, now, now + lag))
               /\ procs' = [procs EXCEPT ![w] = [p EXCEPT !.pc = "profile"]]
          ELSE IF ReviewDateOverflows(p.skill[1], quality, now + lag)
          THEN /\ procs' = [procs EXCEPT ![w] = Finished(p, "OverflowError")]
               /\ UNCHANGED skill_memory
          ELSE /\ skill_memory' = [skill_memory EXCEPT ![p.skill_index] = Written(
                     @, p.skill[1], Sm2Step(p.skill[1], quality, now, now + lag))]
               /\ procs' = [procs EXCEPT ![w] = [p EXCEPT !.pc = "profile"]]
       /\ now' = now + lag
       /\ UNCHANGED <<users, attempts, learning_profiles, sessions, assessments,
                      nops, ret>>

\* step 5 of create_attempt: its queries of the profile and of the recent
\* reaction times
ReadProfile(w) ==
    LET p == procs[w]
        uid == p.attempt.user_id
    IN /\ p.pc = "profile"
       /\ procs' = [procs EXCEPT ![w] =
              IF uid \notin DOMAIN learning_profiles
              THEN Finished(p, "ok")
              ELSE [p EXCEPT !.pc = "profile_commit",
                             !.profile = <<learning_profiles[uid]>>,
                             !.refreshed = <<ProfileRefresh(
                                 learning_profiles[uid], attempts, uid)>>]]
       /\ UNCHANGED <<users, attempts, learning_profiles, skill_memory,
                      sessions, assessments, now, nops, ret>>

\* step 5 of create_attempt: the last commit
CommitProfile(w) ==
    LET p == procs[w]
        uid == p.attempt.user_id
    IN /\ p.pc = "profile_commit"
       /\ learning_profiles' = [learning_profiles EXCEPT ![uid] =
              Written(@, p.profile[1], p.refreshed[1])]
       /\ procs' = [procs EXCEPT ![w] = Finished(p, "ok")]
       /\ UNCHANGED <<users, attempts, skill_memory, sessions, assessments,
                      now, nops, ret>>

\* the learner has asked for one recommendation, so a profile exists
SeedRace == << RecommendAt(0) >>

RaceOutcomes == {o \in Outcomes : o.reaction_time > 0}

InitRace ==
    LET db == Replay(SeedRace)
    IN /\ users = db.users
       /\ attempts = db.attempts
       /\ learning_profiles = db.learning_profiles
       /\ skill_memory = db.skill_memory
       /\ sessions = <<>>
       /\ assessments = <<>>
       /\ procs = [w \in Workers |-> Idle]
       /\ now = 0
       /\ nops = 0
       /\ ret = NoReturn

NextRace ==
    \/ \E w \in Workers, scenario_type \in AttemptScenarios, o \in RaceOutcomes :
          BeginAttempt(w, 1, scenario_type, o.success, o.reaction_time)
    \/ \E w \in Workers : ReadUser(w)
    \/ \E w \in Workers : CommitAttempt(w)
    \/ \E w \in Workers : ReadGain(w)
    \/ \E w \in Workers : ReadBandit(w)
    \/ \E w \in Workers : CommitBandit(w)
    \/ \E w \in Workers : ReadSkill(w)
    \/ \E w \in Workers, lag \in ClockLags : CommitSkill(w, lag)
    \/ \E w \in Workers : ReadProfile(w)
    \/ \E w \in Workers : CommitProfile(w)

SpecRace == InitRace /\ [][NextRace]_vars

NextSession ==
    \/ \E o \in Outcomes : RecordAttempt(1, "ambulance", o.success, o.reaction_time, 1, 0)
    \/ \E u \in UserIds : StartSession(u)
    \/ \E session_id \in 1 .. MaxSessions + 1 : EndSession(session_id)
    \/ Tick

SpecSession == InitFresh /\ [][NextSession]_vars

\* scenario_type is any string: one of the five types and one that is none
OddScenarios == {"police", "spaceship"}

NextOdd ==
    \/ \E scenario_type \in OddScenarios, o \in Outcomes :
          RecordAttempt(1, scenario_type, o.success, o.reaction_time, 1, 0)
    \/ Recommend(1, LowDraws, "firetruck")
    \/ Tick

SpecOdd == InitFresh /\ [][NextOdd]_vars

\* two users; the history is that of user 1
TwoUserTables == Tables((1 :> NewUser) @@ (2 :> NewUser), <<>>, <<>>, <<>>)

InitIso == InitFrom(ReplayRange(TwoUserTables, SeedWindow, 1, Len(SeedWindow)))

NextIso ==
    \/ RecordAttempt(2, "ambulance", TRUE, 10, 1, 0)
    \/ \E u \in UserIds : Recommend(u, LowDraws, "firetruck")
    \/ \E u \in UserIds : StartSession(u)
    \/ \E session_id \in 1 .. MaxSessions : EndSession(session_id)
    \/ \E u \in UserIds : ClinicalScores(u)

SpecIso == InitIso /\ [][NextIso]_vars

InitSpeed == \E history \in SpeedSeeds : InitFrom(Replay(history))

NextSpeed ==
    \/ \E o \in Outcomes :
          RecordAttempt(1, "ambulance", o.success, o.reaction_time, 1, 0)
    \/ Recommend(1, LowDraws, "firetruck")

SpecSpeed == InitSpeed /\ [][NextSpeed]_vars

InitAttention ==
    LET db == Replay(SeedSession)
    IN /\ users = db.users
       /\ attempts = db.attempts
       /\ learning_profiles = db.learning_profiles
       /\ skill_memory = db.skill_memory
       /\ sessions = << NewSession(1, SessionStart) >>
       /\ assessments = <<>>
       /\ procs = <<>>
       /\ now = 0
       /\ nops = 0
       /\ ret = NoReturn

NextAttention ==
    \/ \E o \in Outcomes :
          RecordAttempt(1, "police", o.success, o.reaction_time, 1, 0)
    \/ EndSession(1)
    \/ ClinicalScores(1)

SpecAttention == InitAttention /\ [][NextAttention]_vars

\* outcomes that are fast or slow against the history: a quick failure and
\* a slow success besides those of Outcomes
GainOutcomes ==
    Outcomes \cup {[success |-> FALSE, reaction_time |-> 10],
                   [success |-> TRUE, reaction_time |-> 60]}

GainSeeds == {<< RecommendAt(0) >>, SeedLoad, SeedWindow}

InitGain == \E history \in GainSeeds : InitFrom(Replay(history))

NextGain ==
    \E scenario_type \in AttemptScenarios, o \in GainOutcomes :
        RecordAttempt(1, scenario_type, o.success, o.reaction_time, 1, 0)

SpecGain == InitGain /\ [][NextGain]_vars

\* successes of user 1 up to one short of a level: 400, 900 and 1300 points
SeedFour == Repeat(AttemptAt(0, "ambulance", TRUE, 10), 4)

SeedNine == Repeat(AttemptAt(0, "ambulance", TRUE, 10), 9)

SeedStreak == Repeat(AttemptAt(0, "ambulance", TRUE, 10), 13)

StoreSeeds == {<<>>, SeedFour, SeedNine, SeedStreak}

\* a success after four and a half seconds besides the outcomes of Outcomes
StoreOutcomes == Outcomes \cup {[success |-> TRUE, reaction_time |-> 45]}

\* scenario_type is any string
StoreScenarios == {"ambulance", "spaceship"}

InitStore == \E history \in StoreSeeds : InitFrom(Replay(history))

\* attempts of user 1 and of user 2, who is not in the users table
NextStore ==
    \/ \E u \in UserIds, scenario_type \in StoreScenarios, o \in StoreOutcomes :
          RecordAttempt(u, scenario_type, o.success, o.reaction_time, 1, 0)
    \/ Recommend(1, LowDraws, "firetruck")

SpecStore == InitStore /\ [][NextStore]_vars

InitClinic == \E history \in ClinicSeeds : InitFrom(Replay(history))

NextClinic ==
    \/ \E o \in Outcomes :
          RecordAttempt(1, "ambulance", o.success, o.reaction_time, 1, 0)
    \/ \E u \in UserIds : ClinicalScores(u)
    \/ \E u \in UserIds : Recommend(u, LowDraws, "firetruck")

SpecClinic == InitClinic /\ [][NextClinic]_vars

NextMem ==
    \/ \E q \in Qualities, lag \in ClockLags : MemoryUpdate(1, "ambulance", q, lag)
    \/ Tick

SpecMem == InitFresh /\ [][NextMem]_vars

NextPerfect ==
    \/ \E s \in AttemptScenarios, lag \in ClockLags : MemoryUpdate(1, s, 5, lag)
    \/ Tick

SpecPerfect == InitFresh /\ [][NextPerfect]_vars

----------------------------------------------------------------------------
(* Properties of the memory model *)

SkillRows == {skill_memory[i] : i \in 1 .. Len(skill_memory)}

\* the row the last memory update wrote
UpdatedSkill ==
    skill_memory[SkillIndex(skill_memory, ret.user_id, ret.scenario_type)]

\* C6: in every reachable state the easiness factor of every
\* SkillMemoryState lies in [1.3, 3.0].
C6_EasinessInRange ==
    \A skill \in SkillRows :
        130 <= skill.easiness_factor /\ skill.easiness_factor <= 300

\* the intervals after the first four perfect recalls, as claimed and as
\* computed
ClaimedIntervals == <<100, 600, 1500, 3750>>
PerfectIntervals == <<100, 600, 1620, 4536>>

\* C7 as stated: from a fresh SkillMemoryState, four consecutive updates with
\* quality 5 give the intervals 1, 6, 15, 37.5 days and the repetition counts
\* 1, 2, 3, 4.
C7_ClaimedIntervals ==
    /\ \A skill \in SkillRows :
          skill.repetition_number \in 1 .. 4 =>
              skill.interval_days = ClaimedIntervals[skill.repetition_number]
    /\ ret.op = "update_spaced_repetition" =>
          UpdatedSkill.repetition_number = ret.before.repetition_number + 1

\* C7 amended: from a fresh SkillMemoryState, four consecutive updates with
\* quality 5 give the intervals 1, 6, 16.2 (= 6 x 2.7), 45.36 (= 16.2 x 2.8)
\* days and the repetition counts 1, 2, 3, 4.
C7_PerfectIntervals ==
    /\ \A skill \in SkillRows :
          skill.repetition_number \in 1 .. 4 =>
              skill.interval_days = PerfectIntervals[skill.repetition_number]
    /\ ret.op = "update_spaced_repetition" =>
          UpdatedSkill.repetition_number = ret.before.repetition_number + 1

C7_Witness ==
    \E skill \in SkillRows :
        /\ skill.repetition_number = 4
        /\ skill.interval_days = 4536
        /\ skill.easiness_factor = 290

\* C8: a memory update with quality < 3 sets the repetition count to 0 and
\* the interval to 1 day whatever the row held before; one with quality >= 3
\* increments the repetition count by exactly 1.
C8_FailedRecallResets ==
    ret.op = "update_spaced_repetition" =>
        /\ ret.quality < 3 =>
              /\ UpdatedSkill.repetition_number = 0
              /\ UpdatedSkill.interval_days = 100
        /\ ret.quality >= 3 =>
              UpdatedSkill.repetition_number = ret.before.repetition_number + 1

C8_Witness ==
    /\ ret.op = "update_spaced_repetition"
    /\ ret.quality < 3
    /\ ret.before.repetition_number >= 3
    /\ ret.before.interval_days > 600
    /\ UpdatedSkill.interval_days = 100

\* C9: in every reachable state each SkillMemoryState has
\* next_review_date = last_practiced + interval_days.
C9_ReviewDate ==
    \A skill \in SkillRows :
        skill.next_review_date = skill.last_practiced + skill.interval_days

----------------------------------------------------------------------------
(* Properties of the recommendation arbiter *)

IsRecommendation == ret.op = "recommend" /\ ret.status = "ok"

\* the user's rows that were due when the last recommendation was asked for
DueRows ==
    {skill \in SkillRows :
        skill.user_id = ret.user_id /\ skill.next_review_date <= ret.at}

\* priority 1 applies: a review is due and the learner is not overloaded
ReviewApplies == DueRows # {} /\ ret.load < 700

MaxSample ==
    CHOOSE m \in {ret.samples[s] : s \in Scenarios} :
        \A s \in Scenarios : ret.samples[s] <= m

\* C1: when a SkillMemoryState of the user is due and the cognitive load of
\* the flow analysis is below 0.7, the recommendation is the first scenario
\* of the due list, no due scenario is more urgent, and the reason begins
\* with the memory-retention text, whatever the Beta draws and the failure
\* statistics are.
C1_DueReviewFirst ==
    (IsRecommendation /\ ReviewApplies) =>
        /\ ret.type = ret.due_scenarios[1]
        /\ \E skill \in DueRows : skill.scenario_type = ret.type
        /\ \A skill \in DueRows :
              calculate_memory_decay(skill_memory, ret.at, ret.user_id, ret.type)
                  <= calculate_memory_decay(
                         skill_memory, ret.at, ret.user_id, skill.scenario_type)
        /\ Head(ret.reason) = ReasonReview

C1_Witness ==
    /\ IsRecommendation
    /\ Cardinality(DueRows) >= 2
    /\ ret.load < 700
    /\ ret.samples["police"] = 900
    /\ ret.type = "train"
    /\ Head(ret.reason) = ReasonReview

\* C2: when priority 1 does not apply and the largest of the five Beta draws
\* exceeds 0.3, the recommendation is a scenario whose draw is the largest,
\* with the optimal-learning-opportunity reason.
C2_BanditPick ==
    (IsRecommendation /\ ~ReviewApplies /\ MaxSample > 300) =>
        /\ ret.samples[ret.type] = MaxSample
        /\ Head(ret.reason) = ReasonBandit

C2_Witness ==
    /\ IsRecommendation
    /\ DueRows # {}
    /\ ret.load >= 700
    /\ ret.type = "police"
    /\ Head(ret.reason) = ReasonBandit

\* the places in the attempts table of the user's 20 most recent attempts
RecentPlaces ==
    {i \in 1 .. Len(attempts) :
        /\ attempts[i].user_id = ret.user_id
        /\ Cardinality({j \in i + 1 .. Len(attempts) :
                           attempts[j].user_id = ret.user_id}) < 20}

Tries(t) == Cardinality({i \in RecentPlaces : attempts[i].scenario_type = t})

Fails(t) ==
    Cardinality({i \in RecentPlaces :
                    attempts[i].scenario_type = t /\ ~attempts[i].success})

\* the types attempted whose failure rate no other type exceeds
HighestFailRate ==
    {t \in Scenarios :
        /\ Tries(t) > 0
        /\ \A o \in Scenarios :
              Tries(o) > 0 => Fails(o) * Tries(t) <= Fails(t) * Tries(o)}

FirstInOrder(S) ==
    ScenarioOrder[CHOOSE i \in 1 .. Len(ScenarioOrder) :
                     /\ ScenarioOrder[i] \in S
                     /\ \A j \in 1 .. i - 1 : ScenarioOrder[j] \notin S]

\* C3: when neither priority 1 nor priority 2 applies, the recommendation is
\* the type of highest failure rate over the user's 20 most recent attempts
\* (the first such type of the table) when that rate exceeds 0.3, and
\* otherwise one of the five types with the reason "Balanced rotation".
C3_WeaknessThenRotation ==
    (IsRecommendation /\ ~ReviewApplies /\ MaxSample <= 300) =>
        IF \E t \in Scenarios : Tries(t) > 0 /\ 10 * Fails(t) > 3 * Tries(t)
        THEN /\ ret.type = FirstInOrder(HighestFailRate)
             /\ Head(ret.reason) = ReasonWeakness
        ELSE /\ ret.type \in Scenarios
             /\ Head(ret.reason) = ReasonRotation

C3_Witness ==
    /\ IsRecommendation
    /\ Len(AttemptsOf(attempts, ret.user_id)) > 20
    /\ Head(ret.reason) = ReasonWeakness
    /\ ret.type = "police"
    /\ Fails("ambulance") > 0

----------------------------------------------------------------------------
(* Properties of attempt recording *)

\* the step is a recorded attempt that ended without an exception
AttemptRecorded ==
    nops' = nops + 1 /\ ret'.op = "record_attempt" /\ ret'.status = "ok"

\* the user's BanditState: uniform priors until a profile row holds it
BanditOf(lp, user_id) ==
    IF user_id \in DOMAIN lp THEN lp[user_id].bandit_params ELSE UniformPriors

\* C4: every record_attempt of an existing user for a scenario of the closed
\* set grows alpha or beta of the attempted scenario, also before the user's
\* first recommendation.
C4_EveryAttemptUpdatesBandit ==
    [][AttemptRecorded =>
          LET before == BanditOf(learning_profiles, ret'.user_id)[ret'.scenario_type]
              after == BanditOf(learning_profiles', ret'.user_id)[ret'.scenario_type]
          IN after.alpha > before.alpha \/ after.beta > before.beta]_vars

BanditPositive(lp) ==
    \A u \in DOMAIN lp : \A s \in Scenarios :
        lp[u].bandit_params[s].alpha > 0 /\ lp[u].bandit_params[s].beta > 0

\* C5: alpha and beta are always positive and start at 1; no step decreases
\* or resets any of them; a bandit update with learning gain g for scenario
\* s adds g to alpha_s when g > 0.4, adds 1 - g to beta_s otherwise, and
\* changes no other number.
C5_BanditUpdate ==
    [][/\ BanditPositive(learning_profiles) /\ BanditPositive(learning_profiles')
       /\ \A u \in DOMAIN learning_profiles' \ DOMAIN learning_profiles :
             learning_profiles'[u].bandit_params = UniformPriors
       /\ \A u \in DOMAIN learning_profiles :
             /\ u \in DOMAIN learning_profiles'
             /\ \A s \in Scenarios :
                   /\ learning_profiles'[u].bandit_params[s].alpha
                         >= learning_profiles[u].bandit_params[s].alpha
                   /\ learning_profiles'[u].bandit_params[s].beta
                         >= learning_profiles[u].bandit_params[s].beta
       /\ (AttemptRecorded /\ ret'.user_id \in DOMAIN learning_profiles) =>
             LET before == learning_profiles[ret'.user_id].bandit_params
                 after == learning_profiles'[ret'.user_id].bandit_params
                 s == ret'.scenario_type
                 g == ret'.learning_gain
             IN /\ \A o \in Scenarios \ {s} : after[o] = before[o]
                /\ g > 400 =>
                      /\ after[s].alpha = before[s].alpha + g
                      /\ after[s].beta = before[s].beta
                /\ g <= 400 =>
                      /\ after[s].beta = before[s].beta + (1000 - g)
                      /\ after[s].alpha = before[s].alpha
      ]_vars

C5_Witness ==
    /\ ret.op = "record_attempt"
    /\ ret.status = "ok"
    /\ ret.had_profile
    /\ ret.learning_gain = 400
    /\ learning_profiles[ret.user_id].bandit_params[ret.scenario_type]
          = [alpha |-> 1000, beta |-> 1600]

\* C10: with fewer than 3 attempts of the (user, scenario) pair recorded
\* before it, an attempt's learning gain is 0.8 if it succeeded and 0.4
\* otherwise.
C10_BootstrapGain ==
    (ret.op = "record_attempt" /\ ret.status = "ok" /\ ret.n_prior < 3) =>
        ret.learning_gain = IF ret.success THEN 800 ELSE 400


----------------------------------------------------------------------------
(* Properties of the recommendation payload *)

\* C11: for a user with zero attempts recommend does not fail and returns a
\* valid payload: type one of the five scenario types with its table action
\* and visual cue, difficulty_level 1, speed_modifier 1.0, cognitive_load
\* 0.5, in_flow_state false, noise_level 0.17, and as reason the
\* Thompson-sampling text or "Balanced rotation".
C11_NewUserPayload ==
    (ret.op = "recommend" /\ ret.user_id \in DOMAIN users
        /\ AttemptsOf(attempts, ret.user_id) = <<>>) =>
        /\ ret.status = "ok"
        /\ ret.type \in Scenarios
        /\ ret.action = scenario_map[ret.type].action
        /\ ret.visual_cue = scenario_map[ret.type].visual_cue
        /\ ret.difficulty_level = 1
        /\ ret.speed_modifier = 100
        /\ ret.cognitive_load = 50
        /\ ret.in_flow_state = FALSE
        /\ ret.noise_level = 17
        /\ ret.reason \in {<<ReasonBandit>>, <<ReasonRotation>>}

C11_Witness ==
    /\ ret.op = "recommend"
    /\ ret.status = "ok"
    /\ attempts = <<>>
    /\ ret.type = "ice_cream"
    /\ ret.reason = <<ReasonRotation>>

\* the six tables
Store == <<users, attempts, learning_profiles, skill_memory, sessions, assessments>>

\* C12: a recommendation request or a clinical-score request for a user id
\* that does not exist ends NotFound and leaves every table as it was.
C12_UnknownUserNoEffect ==
    [][(ret'.op \in {"recommend", "clinical_scores"} /\ ret'.user_id \notin DOMAIN users)
          => (ret'.status = "NotFound" /\ UNCHANGED Store)]_vars

C12_Witness ==
    /\ ret.op = "clinical_scores"
    /\ ret.user_id \notin DOMAIN users
    /\ ret.status = "NotFound"
    /\ Len(attempts) >= 20
    /\ learning_profiles # <<>>

----------------------------------------------------------------------------
(* Properties of clinical scoring *)

\* the places in the attempts table of the user's k most recent attempts
NewestPlaces(user_id, k) ==
    {i \in 1 .. Len(attempts) :
        /\ attempts[i].user_id = user_id
        /\ Cardinality({j \in i + 1 .. Len(attempts) :
                           attempts[j].user_id = user_id}) < k}

\* the step is a clinical-score request
ClinicalStep == ret'.op = "clinical_scores" /\ now' = now /\ nops' = nops

\* C15: for an existing user a clinical-score request gives the
\* insufficient-data result and saves nothing exactly when the user has
\* fewer than 20 attempts; otherwise it scores the 100 most recent attempts
\* at most and appends exactly one snapshot, leaving the earlier snapshots
\* and the attempts as they were.
C15_ClinicalThreshold ==
    [][(ClinicalStep /\ ret'.user_id \in DOMAIN users) =>
          LET window == NewestPlaces(ret'.user_id, 100)
              all == NewestPlaces(ret'.user_id, Len(attempts) + 1)
              ok == {i \in window : attempts[i].success}
          IN /\ attempts' = attempts
             /\ IF Cardinality(all) < 20
                THEN /\ ret'.status = "InsufficientData"
                     /\ assessments' = assessments
                ELSE /\ ret'.status = "ok"
                     /\ Len(assessments') = Len(assessments) + 1
                     /\ SubSeq(assessments', 1, Len(assessments)) = assessments
                     /\ assessments'[Len(assessments')].user_id = ret'.user_id
                     /\ ret'.considered = Cardinality(window)
                     /\ Cardinality(window) <= 100
                     /\ assessments'[Len(assessments')].sound_localization_score
                           = RoundDiv(10000 * Cardinality(ok), Cardinality(window))]_vars

C15_Witness ==
    /\ ret.op = "clinical_scores"
    /\ ret.status = "ok"
    /\ ret.considered = 100
    /\ Len(AttemptsOf(attempts, ret.user_id)) > 100
    /\ Len(assessments) = 2
    /\ assessments[2].figure_ground_discrimination_score = 5000
    /\ assessments[1].figure_ground_discrimination_score = 0

----------------------------------------------------------------------------
(* Properties of concurrent requests *)

BothServed == \A w \in Workers : procs[w].pc = "done" /\ procs[w].status = "ok"

\* the bandit state after the increments of both requests
BothIncrements ==
    LET start == Replay(SeedRace).learning_profiles[1].bandit_params
        first == [start EXCEPT ![procs[1].attempt.scenario_type] =
                     BanditUpdate(@, procs[1].learning_gain)]
    IN [first EXCEPT ![procs[2].attempt.scenario_type] =
           BanditUpdate(@, procs[2].learning_gain)]

\* C13: when two record_attempt requests of one user have been served
\* concurrently, the user's bandit state holds the increments of both.
C13_NoLostUpdate ==
    BothServed => learning_profiles[1].bandit_params = BothIncrements

\* C18: no two skill rows share a (user, scenario) pair, also after two
\* record_attempt requests for a scenario not practised before interleave.
C18_OneRowPerPair ==
    \A i, j \in 1 .. Len(skill_memory) :
        (skill_memory[i].user_id = skill_memory[j].user_id
            /\ skill_memory[i].scenario_type = skill_memory[j].scenario_type) => i = j

----------------------------------------------------------------------------
(* Properties of sessions *)

\* the fields end_session fills in
Finalized(session) ==
    <<session.session_end, session.initial_performance, session.final_performance,
      session.learning_velocity, session.response_consistency>>

\* C14: once end_session has finalized a session, no later request changes
\* its end time, initial and final performance, learning velocity or
\* response consistency.
C14_FinalizedFrozen ==
    [][\A i \in 1 .. Len(sessions) :
          sessions[i].ended => Finalized(sessions'[i]) = Finalized(sessions[i])]_vars

----------------------------------------------------------------------------
(* Properties of the recommendation's cue *)

\* C16: the action and the visual cue of a recommendation are the table
\* entry of its type; a type that is none of the five gets the ambulance
\* entry, 'Move Right', and is still reported as the type.
C16_CueOfSelectedType ==
    IsRecommendation =>
        IF ret.type \in Scenarios
        THEN /\ ret.action = scenario_map[ret.type].action
             /\ ret.visual_cue = scenario_map[ret.type].visual_cue
        ELSE /\ ret.action = "Move Right"
             /\ ret.visual_cue = "Flashing Red/White Lights"
             /\ ret.due_scenarios # <<>>
             /\ ret.type = ret.due_scenarios[1]
             /\ \E i \in 1 .. Len(skill_memory) :
                   /\ skill_memory[i].user_id = ret.user_id
                   /\ skill_memory[i].scenario_type = ret.type

C16_Witness ==
    /\ IsRecommendation
    /\ ret.type = "spaceship"
    /\ ret.action = "Move Right"
    /\ ret.reason[1] = ReasonReview

----------------------------------------------------------------------------
(* Per-user isolation *)

RowsOf(table, user_id) ==
    LET Mine(row) == row.user_id = user_id IN SelectSeq(table, Mine)

\* every record the user owns
Owned(user_id) ==
    <<users[user_id],
      RowsOf(attempts, user_id),
      IF user_id \in DOMAIN learning_profiles
          THEN <<learning_profiles[user_id]>> ELSE <<>>,
      RowsOf(skill_memory, user_id),
      RowsOf(sessions, user_id),
      RowsOf(assessments, user_id)>>

\* the tables with the records of the other users taken out
OnlyOf(user_id) ==
    Tables([u \in {user_id} |-> users[u]],
           RowsOf(attempts, user_id),
           [u \in DOMAIN learning_profiles \cap {user_id} |-> learning_profiles[u]],
           RowsOf(skill_memory, user_id))

\* what the client receives
Payload(r) ==
    <<r.type, r.action, r.visual_cue, r.difficulty_level, r.noise_level,
      r.speed_modifier, r.reason, r.cognitive_load, r.in_flow_state>>

\* C17: a request served for one user leaves every record owned by another
\* user unchanged, and a recommendation for a user is the one the same
\* request gets when the records of the other users are not there.
C17_Isolation ==
    [][ret'.op # "none" =>
          /\ \A b \in DOMAIN users :
                b # ret'.user_id => Owned(b)' = Owned(b)
          /\ (ret'.op = "recommend" /\ ret'.status = "ok" /\ attempts' = attempts
                /\ sessions' = sessions /\ assessments' = assessments) =>
                Payload(ret') = Payload(RecommendationFor(
                    OnlyOf(ret'.user_id), now, ret'.user_id, ret'.samples, ret'.choice))]_vars

C17_Witness ==
    /\ ret.op = "recommend"
    /\ ret.status = "ok"
    /\ ret.user_id = 2
    /\ RowsOf(attempts, 2) # <<>>
    /\ Len(RowsOf(attempts, 1)) >= 20
    /\ RowsOf(skill_memory, 1) # <<>>
    /\ 1 \in DOMAIN learning_profiles
    /\ RowsOf(assessments, 1) # <<>>
    /\ RowsOf(sessions, 1) # <<>>

----------------------------------------------------------------------------
(* Properties of the easiness update *)

\* the decrease for the qualities 0, 1, 2, 3, in hundredths
Penalty == <<80, 54, 32, 14>>

\* C19 as stated: a memory update with quality 4 or 5 leaves the easiness
\* factor strictly larger, and one with quality 3 or lower leaves it smaller
\* by 0.14, 0.32, 0.54, 0.80 for quality 3, 2, 1, 0 unless held at 1.3.
C19_ClaimedEasiness ==
    ret.op = "update_spaced_repetition" =>
        /\ ret.quality >= 4 =>
              UpdatedSkill.easiness_factor > ret.before.easiness_factor
        /\ ret.quality <= 3 =>
              \/ UpdatedSkill.easiness_factor = 130
              \/ UpdatedSkill.easiness_factor
                    = ret.before.easiness_factor - Penalty[ret.quality + 1]

\* C19 as computed: quality 5 raises the easiness factor by 0.1, quality 4
\* leaves it as it was, and quality 3, 2, 1, 0 lowers it by 0.14, 0.32, 0.54,
\* 0.80, but never below 1.3.
C19_Easiness ==
    ret.op = "update_spaced_repetition" =>
        /\ ret.quality = 5 =>
              UpdatedSkill.easiness_factor = ret.before.easiness_factor + 10
        /\ ret.quality = 4 =>
              UpdatedSkill.easiness_factor = ret.before.easiness_factor
        /\ ret.quality <= 3 =>
              /\ UpdatedSkill.easiness_factor < ret.before.easiness_factor
                    \/ UpdatedSkill.easiness_factor = 130
              /\ UpdatedSkill.easiness_factor
                    = Max(130, ret.before.easiness_factor - Penalty[ret.quality + 1])

C19_Witness ==
    /\ ret.op = "update_spaced_repetition"
    /\ ret.quality = 4
    /\ ret.before.easiness_factor = 260
    /\ UpdatedSkill.easiness_factor = 260

----------------------------------------------------------------------------
(* Properties of the speed modifier *)

\* the factor of the flow recommendation, in hundredths
FlowFactor ==
    IF ret.flow_recommendation = "decrease_difficulty" THEN 80
    ELSE IF ret.flow_recommendation = "increase_difficulty" THEN 130
    ELSE 100

\* the user's three newest attempts exist and are successes
RunOfThree ==
    /\ Cardinality(NewestPlaces(ret.user_id, 3)) = 3
    /\ \A i \in NewestPlaces(ret.user_id, 3) : attempts[i].success

----------------------------------------------------------------------------
(* Properties of flow detection *)

\* the attempts flow detection considers: the user's 20 newest
Considered == NewestPlaces(ret.user_id, 20)

\* C21 as stated: the cognitive load that flow detection returns is the
\* value the cognitive-load estimator computes for the user at that moment,
\* also when fewer than 5 attempts are considered.
C21_LoadIsEstimate ==
    IsRecommendation =>
        ret.load = calculate_cognitive_load(attempts, ret.at, ret.user_id)

\* C21 as computed: with 5 or more attempts considered the cognitive load
\* that flow detection returns is the estimator's value; with fewer than 5
\* it is the neutral 0.5, whatever the estimator computes.
C21_LoadOrNeutral ==
    IsRecommendation =>
        ret.load = IF Cardinality(Considered) < 5 THEN 500
                   ELSE calculate_cognitive_load(attempts, ret.at, ret.user_id)

C21_Witness ==
    /\ IsRecommendation
    /\ Cardinality(Considered) = 4
    /\ ret.load = 500
    /\ calculate_cognitive_load(attempts, ret.at, ret.user_id) < 500

\* the reaction times above 0 of the attempts considered
ConsideredRts == TimedRts(NewestFirst(AttemptsOf(attempts, ret.user_id), 20))

\* sqrt(var) / mean < 0.3, squared: n^2 var < 0.09 (sum)^2
Consistent ==
    /\ ConsideredRts # <<>>
    /\ 100 * VarNumerator(ConsideredRts) < 9 * SumSeq(ConsideredRts) * SumSeq(ConsideredRts)

----------------------------------------------------------------------------
(* Properties of the attention span *)

SessionRows(i) ==
    AttemptsWithin(attempts, sessions[i].user_id,
                   sessions[i].session_start, sessions[i].session_end)

\* the window of 5 attempts that starts at the k-th has a success rate
\* below 0.5
LowWindow(rows, k) ==
    2 * Cardinality({j \in k .. k + 4 : rows[j].success}) < 5

FirstLowWindow(rows) ==
    CHOOSE k \in 1 .. Len(rows) - 4 :
        LowWindow(rows, k) /\ \A j \in 1 .. k - 1 : ~LowWindow(rows, j)

\* the finalized sessions of the user with at least 10 attempts and a low
\* window among their n - 4 windows
Fatigued ==
    {i \in 1 .. Len(sessions) :
        /\ sessions[i].user_id = ret.user_id
        /\ sessions[i].ended
        /\ Len(SessionRows(i)) >= 10
        /\ \E k \in 1 .. Len(SessionRows(i)) - 4 : LowWindow(SessionRows(i), k)}

SecondsToFatigue(i) ==
    (SessionRows(i)[FirstLowWindow(SessionRows(i))].timestamp
        - sessions[i].session_start) * SecondsPerTick

\* C23: for a finalized session with at least 10 attempts in which one of
\* the n - 4 windows of 5 consecutive attempts, the last one included, has a
\* success rate below 0.5, the attention span takes the seconds from the
\* session start to the first attempt of the first such window; it is the
\* default 300 seconds only when no session has such a window.
C23_AttentionSpan ==
    (ret.op = "clinical_scores" /\ ret.status = "ok") =>
        /\ Fatigued = {} => ret.scores.auditory_attention_span = 300
        /\ \A i \in Fatigued :
              Fatigued = {i} =>
                  ret.scores.auditory_attention_span = SecondsToFatigue(i)

----------------------------------------------------------------------------
(* Properties of the learning gain *)

\* C24: for a user with a learning profile, record_attempt grows alpha of
\* the attempted scenario exactly when the attempt succeeded and beta
\* exactly when it failed; the learning gain is at least 0.6 for a success
\* and at most 0.4 for a failure.
C24_GainFollowsSuccess ==
    [][(nops' = nops + 1 /\ ret'.op = "record_attempt" /\ ret'.had_profile
           /\ ret'.scenario_type \in Scenarios) =>
          LET before == learning_profiles[ret'.user_id].bandit_params[ret'.scenario_type]
              after == learning_profiles'[ret'.user_id].bandit_params[ret'.scenario_type]
          IN /\ (after.alpha > before.alpha) = ret'.success
             /\ (after.beta > before.beta) = ~ret'.success
             /\ ret'.success => ret'.learning_gain >= 600
             /\ ~ret'.success => ret'.learning_gain <= 400]_vars

C24_Witness ==
    /\ ret.op = "record_attempt"
    /\ ret.had_profile
    /\ ~ret.success
    /\ ret.reaction_time = 10
    /\ ret.n_prior >= 3
    /\ ret.learning_gain > 200
    /\ ret.learning_gain <= 400

----------------------------------------------------------------------------
(* Properties of what record_attempt stores *)

StoredSuccesses(user_id) == Successes(AttemptsOf(attempts, user_id))

\* C25: every user's total_score is 100 times the number of the user's
\* stored successful attempts and current_level is 1 + total_score div 500;
\* a failed attempt changes neither, and the level never decreases.
C25_ScoreAndLevel ==
    /\ [](\A u \in DOMAIN users :
             /\ users[u].total_score = 100 * StoredSuccesses(u)
             /\ users[u].current_level = 1 + (users[u].total_score \div 500))
    /\ [][/\ (ret'.op = "record_attempt" /\ nops' = nops + 1 /\ ~ret'.success)
                => users' = users
          /\ \A u \in DOMAIN users :
                /\ u \in DOMAIN users'
                /\ users'[u].current_level >= users[u].current_level]_vars

C25_Witness ==
    /\ ret.op = "record_attempt"
    /\ ret.success
    /\ ret.user_id \in DOMAIN users
    /\ users[ret.user_id].total_score = 500
    /\ users[ret.user_id].current_level = 2

\* C26: whatever strings record_attempt was given as scenario_type, the
\* type of a recommendation is one of the five scenario types.
C26_TypeInClosedSet == IsRecommendation => ret.type \in Scenarios

\* C27: record_attempt is all-or-nothing: when it ends in an error no
\* Attempt is stored and score, level, bandit, skill-memory and profile
\* state are unchanged.
C27_AllOrNothing ==
    [][(nops' = nops + 1 /\ ret'.op = "record_attempt" /\ ret'.status # "ok")
          => UNCHANGED <<users, attempts, learning_profiles, skill_memory>>]_vars

\* C28: every stored Attempt and every SkillMemoryState refers to an
\* existing user.
C28_RowsOfExistingUsers ==
    /\ \A i \in 1 .. Len(attempts) : attempts[i].user_id \in DOMAIN users
    /\ \A i \in 1 .. Len(skill_memory) : skill_memory[i].user_id \in DOMAIN users

\* the skill row of the attempted scenario before the attempt (a fresh
\* one when there is none yet) and after it
SkillBefore ==
    LET i == SkillIndex(skill_memory, ret'.user_id, ret'.scenario_type)
    IN IF i = 0 THEN NewSkill(ret'.user_id, ret'.scenario_type, now)
       ELSE skill_memory[i]

SkillAfter ==
    LET i == SkillIndex(skill_memory', ret'.user_id, ret'.scenario_type)
    IN IF i = 0 THEN SkillBefore ELSE skill_memory'[i]

\* C29: a successful attempt never resets its scenario's review schedule:
\* after record_attempt with success = true the repetition count is its
\* previous value plus 1 and the interval is not reset to 1 day from a
\* larger value.
C29_SuccessKeepsSchedule ==
    [][(nops' = nops + 1 /\ ret'.op = "record_attempt" /\ ret'.success
           /\ ret'.status # "AttributeError")
          => /\ SkillAfter.repetition_number = SkillBefore.repetition_number + 1
             /\ ~(SkillBefore.interval_days > 100 /\ SkillAfter.interval_days = 100)
       ]_vars

=============================================================================
